---------------------------- MODULE Spec2Model ----------------------------
(***************************************************************************)
(* Model of carculator_truck/energy_consumption.py:                        *)
(* class EnergyConsumptionModel (constructor, aux_energy_per_km,           *)
(* motive_energy_per_km in normal and debug mode).                         *)
(*                                                                         *)
(* Numbers.  The code computes in IEEE-754 doubles.  The model computes    *)
(* with exact rationals [n, d] in lowest terms (d > 0), extended with the  *)
(* three non-finite doubles: +inf = [1,0], -inf = [-1,0], nan = [0,0].     *)
(* Rounding and the sign of zero are abstracted away; division by zero,    *)
(* infinities and nan behave as numpy's do.                                *)
(*                                                                         *)
(* Arrays.  An ndarray handed to the constructor is [shape, flat] (its     *)
(* shape and its elements in C order).  Every array the class works on     *)
(* has rank 4 after reshape(-1,1,1,6) / .T and is modelled as              *)
(* [shape |-> <<d0,d1,d2,d3>>, data |-> [index 4-tuples -> number]], with  *)
(* 0-based indices as in Python.  Arrays of lower rank (the (6,) distance) *)
(* are kept with leading axes of length 1, which is how numpy broadcasts   *)
(* them.  base names the buffer that holds the elements: "new" for an      *)
(* array an operation allocates, the owner's name for an attribute of the  *)
(* instance or an argument of the caller and for every view of it (.T,     *)
(* .values, reshape).  An in-place operator (times-equals, minus-equals,   *)
(* divide-equals) writes the buffer of its left operand.                   *)
(***************************************************************************)
EXTENDS Integers, Sequences, FiniteSets, TLC

---------------------------------------------------------------------------
(* Exact arithmetic standing for float64 *)

Abs(x) == IF x < 0 THEN -x ELSE x

RECURSIVE GCD(_, _)
GCD(a, b) == IF b = 0 THEN a ELSE GCD(b, a % b)

\* n/d in lowest terms, d # 0
Q(n, d) ==
    LET g == GCD(Abs(n), Abs(d))
        s == IF d < 0 THEN -1 ELSE 1
    IN  [n |-> (s * n) \div g, d |-> (s * d) \div g]

Zero == [n |-> 0, d |-> 1]
One  == [n |-> 1, d |-> 1]
NaN  == [n |-> 0, d |-> 0]
PInf == [n |-> 1, d |-> 0]
NInf == [n |-> -1, d |-> 0]

IsNaN(x)    == x.d = 0 /\ x.n = 0
IsFinite(x) == x.d # 0
Sgn(x)      == IF x.n > 0 THEN 1 ELSE IF x.n < 0 THEN -1 ELSE 0

Neg(x) == [n |-> -x.n, d |-> x.d]

\* float multiplication
Mul(a, b) ==
    IF IsNaN(a) \/ IsNaN(b) THEN NaN
    ELSE IF a.d = 0 \/ b.d = 0
         THEN [n |-> Sgn(a) * Sgn(b), d |-> 0]      \* inf * 0 = nan
    ELSE IF a.n = 0 \/ b.n = 0 THEN Zero
    ELSE LET g1 == GCD(Abs(a.n), b.d)
             g2 == GCD(Abs(b.n), a.d)
         IN  [n |-> (a.n \div g1) * (b.n \div g2),
              d |-> (a.d \div g2) * (b.d \div g1)]

\* float addition
Add(a, b) ==
    IF IsNaN(a) \/ IsNaN(b) THEN NaN
    ELSE IF a.d = 0 /\ b.d = 0 THEN (IF a.n = b.n THEN a ELSE NaN)
    ELSE IF a.d = 0 THEN a
    ELSE IF b.d = 0 THEN b
    ELSE LET g == GCD(a.d, b.d)
         IN  Q(a.n * (b.d \div g) + b.n * (a.d \div g), (a.d \div g) * b.d)

Sub(a, b) == Add(a, Neg(b))

\* float division: x/0 is +-inf, 0/0 is nan (numpy warns and returns it)
Div(a, b) ==
    IF IsNaN(a) \/ IsNaN(b) THEN NaN
    ELSE IF b.d = 0 THEN (IF a.d = 0 THEN NaN ELSE Zero)
    ELSE IF b.n = 0 THEN [n |-> Sgn(a), d |-> 0]
    ELSE IF a.d = 0 THEN [n |-> Sgn(a) * Sgn(b), d |-> 0]
    ELSE Mul(a, [n |-> Sgn(b) * b.d, d |-> Abs(b.n)])

\* a < b as floats compare: false when either is nan
Lt(a, b) ==
    IF IsNaN(a) \/ IsNaN(b) THEN FALSE
    ELSE IF a.d = 0 \/ b.d = 0
         THEN (IF a.d = 0 /\ b.d = 0 THEN a.n < b.n
               ELSE IF a.d = 0 THEN a.n < 0
               ELSE b.n > 0)
    ELSE Add(a, Neg(b)).n < 0

Le(a, b) == Lt(a, b) \/ (~IsNaN(a) /\ a = b)

\* np.maximum / np.minimum: nan propagates
Maximum(a, b) == IF IsNaN(a) \/ IsNaN(b) THEN NaN ELSE IF Lt(a, b) THEN b ELSE a
Minimum(a, b) == IF IsNaN(a) \/ IsNaN(b) THEN NaN ELSE IF Lt(b, a) THEN b ELSE a

---------------------------------------------------------------------------
(* Bounds of the model *)

\* longest explicit (T, 6) driving cycle, in seconds
MaxT == 3
\* longest explicit one-dimensional driving cycle, in samples
MaxFlat == 12

---------------------------------------------------------------------------
(* Rank-4 arrays and numpy broadcasting *)

\* length of the last axis fixed by reshape(-1,1,1,6): one column per size class
SizeAxis == 6

Idx(sh) ==
    {<<i, j, k, l>> : i \in 0..(sh[1] - 1), j \in 0..(sh[2] - 1),
                      k \in 0..(sh[3] - 1), l \in 0..(sh[4] - 1)}

\* the element of an operand of shape sh that broadcasting pairs with index i
Proj(i, sh) ==
    << IF sh[1] = 1 THEN 0 ELSE i[1], IF sh[2] = 1 THEN 0 ELSE i[2],
       IF sh[3] = 1 THEN 0 ELSE i[3], IF sh[4] = 1 THEN 0 ELSE i[4] >>

Broadcastable(s1, s2) ==
    \A k \in 1..4 : s1[k] = s2[k] \/ s1[k] = 1 \/ s2[k] = 1

BShape(s1, s2) ==
    << IF s1[1] = 1 THEN s2[1] ELSE s1[1], IF s1[2] = 1 THEN s2[2] ELSE s1[2],
       IF s1[3] = 1 THEN s2[3] ELSE s1[3], IF s1[4] = 1 THEN s2[4] ELSE s1[4] >>

\* a + b, elementwise and broadcast
np_add(a, b) ==
    LET sh == BShape(a.shape, b.shape)
    IN  [shape |-> sh, base |-> "new",
         data  |-> [i \in Idx(sh) |->
                      Add(a.data[Proj(i, a.shape)], b.data[Proj(i, b.shape)])]]

\* a - b, elementwise and broadcast
np_subtract(a, b) ==
    LET sh == BShape(a.shape, b.shape)
    IN  [shape |-> sh, base |-> "new",
         data  |-> [i \in Idx(sh) |->
                      Sub(a.data[Proj(i, a.shape)], b.data[Proj(i, b.shape)])]]

\* a * b, elementwise and broadcast
np_multiply(a, b) ==
    LET sh == BShape(a.shape, b.shape)
    IN  [shape |-> sh, base |-> "new",
         data  |-> [i \in Idx(sh) |->
                      Mul(a.data[Proj(i, a.shape)], b.data[Proj(i, b.shape)])]]

\* a / b, elementwise and broadcast
np_divide(a, b) ==
    LET sh == BShape(a.shape, b.shape)
    IN  [shape |-> sh, base |-> "new",
         data  |-> [i \in Idx(sh) |->
                      Div(a.data[Proj(i, a.shape)], b.data[Proj(i, b.shape)])]]

\* np.minimum(a, b), elementwise and broadcast
np_minimum(a, b) ==
    LET sh == BShape(a.shape, b.shape)
    IN  [shape |-> sh, base |-> "new",
         data  |-> [i \in Idx(sh) |->
                      Minimum(a.data[Proj(i, a.shape)], b.data[Proj(i, b.shape)])]]

\* a * x for a Python scalar x
np_multiply_s(a, x) ==
    [shape |-> a.shape, base |-> "new",
     data  |-> [i \in Idx(a.shape) |-> Mul(a.data[i], x)]]

\* a / x for a Python scalar x
np_divide_s(a, x) ==
    [shape |-> a.shape, base |-> "new",
     data  |-> [i \in Idx(a.shape) |-> Div(a.data[i], x)]]

\* np.maximum(a, x) for a Python scalar x
np_maximum_s(a, x) ==
    [shape |-> a.shape, base |-> "new",
     data  |-> [i \in Idx(a.shape) |-> Maximum(a.data[i], x)]]

\* a *= b, a -= b, a /= b : the same operations, written into a's buffer
imul(a, b) == [np_multiply(a, b) EXCEPT !.base = a.base]
isub(a, b) == [np_subtract(a, b) EXCEPT !.base = a.base]
itruediv(a, b) == [np_divide(a, b) EXCEPT !.base = a.base]
\* a /= x for a Python scalar x
itruediv_s(a, x) == [np_divide_s(a, x) EXCEPT !.base = a.base]

\* .T : the axes reversed, a view of the same buffer
Transpose(a) ==
    [shape |-> <<a.shape[4], a.shape[3], a.shape[2], a.shape[1]>>,
     base  |-> a.base,
     data  |-> [i \in Idx(<<a.shape[4], a.shape[3], a.shape[2], a.shape[1]>>) |->
                  a.data[<<i[4], i[3], i[2], i[1]>>]]]

RECURSIVE SumTo(_, _, _)
\* a.data[0, j, k, l] + ... + a.data[n-1, j, k, l], left to right from 0.0
SumTo(a, i, n) ==
    IF n = 0 THEN Zero
    ELSE Add(SumTo(a, i, n - 1), a.data[<<n - 1, i[2], i[3], i[4]>>])

\* a.sum(axis=0)[0][0] : shape (size,), kept as (1, 1, 1, size)
SumAxis0_00(a) ==
    [shape |-> <<1, 1, 1, a.shape[4]>>, base |-> "new",
     data  |-> [i \in Idx(<<1, 1, 1, a.shape[4]>>) |-> SumTo(a, i, a.shape[1])]]

\* np.ones_like / np.zeros_like
Full(sh, x) == [shape |-> sh, base |-> "new", data |-> [i \in Idx(sh) |-> x]]

\* x.reshape(-1, 1, 1, 6) of an ndarray [shape, flat], a view of x;
\* "ValueError" when the number of elements is not a multiple of 6
Reshape_6(x) ==
    IF Len(x.flat) % SizeAxis # 0
    THEN [raised |-> "ValueError"]
    ELSE LET sh == <<Len(x.flat) \div SizeAxis, 1, 1, SizeAxis>>
         IN  [raised |-> "none",
              value  |-> [shape |-> sh, base |-> x.base,
                          data  |-> [i \in Idx(sh) |->
                                       x.flat[SizeAxis * i[1] + i[4] + 1]]]]

\* Python's bound of a slice index on an axis of length n
SliceIndex(k, n) ==
    IF k < 0 THEN (IF n + k < 0 THEN 0 ELSE n + k)
    ELSE IF k > n THEN n ELSE k

---------------------------------------------------------------------------
(* The external collaborators: driving cycles and road gradients *)

\* an ndarray of the given shape with the given elements (C order)
NdArray(shape, flat) ==
    [type |-> "ndarray", shape |-> shape, flat |-> flat, base |-> "cycle"]

\* rows repeated over the six size classes, scaled per column: a (T, 6) array
Columns(rows, scale) ==
    NdArray(<<Len(rows), SizeAxis>>,
            [k \in 1..(Len(rows) * SizeAxis) |->
               rows[((k - 1) \div SizeAxis) + 1] * scale[((k - 1) % SizeAxis) + 1]])

\* the registry of named cycles: speeds in km/h, one row per second
StandardCycles ==
    [c \in {"Urban delivery", "Long haul"} |->
       IF c = "Urban delivery"
       THEN Columns(<<0, 10, 20, 10, 0>>, <<1, 1, 1, 2, 2, 2>>)
       ELSE Columns(<<72, 90, 72>>, <<1, 1, 1, 1, 1, 1>>)]

\* road gradients of the named cycles, as multiples of the angle whose sine
\* is 1/10 (positive uphill), aligned with the cycle
StandardGradients ==
    [c \in {"Urban delivery", "Long haul"} |->
       IF c = "Urban delivery"
       THEN Columns(<<0, 1, 0, -1, 0>>, <<1, 1, 1, 1, 1, 1>>)
       ELSE Columns(<<1, 0, -1>>, <<1, 1, 1, 1, 1, 1>>)]

\* get_standard_driving_cycle(name): the cycle, or KeyError for an unknown name
get_standard_driving_cycle(name) ==
    IF name \in DOMAIN StandardCycles
    THEN [raised |-> "none", value |-> StandardCycles[name]]
    ELSE [raised |-> "KeyError"]

\* get_gradients(name): the gradient series aligned with the cycle of that
\* identity; for "custom" a zero series as long as the cycle passed in
get_gradients(name, cycle) ==
    [(IF name \in DOMAIN StandardGradients THEN StandardGradients[name]
      ELSE NdArray(cycle.shape, [k \in 1..Len(cycle.flat) |-> 0]))
     EXCEPT !.base = "gradient"]

\* np.sin of a gradient sample k (k times the angle whose sine is 1/10,
\* k in -1..1)
Sin(k) == Q(k, 10)

---------------------------------------------------------------------------
(* EnergyConsumptionModel.__init__ *)

\* default of rho_air
RhoAirDefault == Q(1204, 1000)

\* self.velocity = (self.cycle * 1000) / 3600
Velocity(cycle) ==
    [shape |-> cycle.shape, base |-> "self.velocity",
     data  |-> [i \in Idx(cycle.shape) |->
                  Div(Mul(Q(cycle.data[i], 1), Q(1000, 1)), Q(3600, 1))]]

\* a slip: the forward difference acceleration[1:] = velocity[1:] - velocity[:-1]
Acceleration_forward(velocity) ==
    [shape |-> velocity.shape, base |-> "self.acceleration",
     data  |-> [i \in Idx(velocity.shape) |->
                  IF 1 <= i[1]
                  THEN Sub(velocity.data[i],
                           velocity.data[<<i[1] - 1, i[2], i[3], i[4]>>])
                  ELSE Zero]]

\* acceleration = zeros_like(velocity);
\* acceleration[1:-1] = (velocity[2:] - velocity[:-2]) / 2
Acceleration(velocity) ==
    LET n   == velocity.shape[1]
        lo  == SliceIndex(1, n)
        hi  == SliceIndex(-1, n)
        lo2 == SliceIndex(2, n)
    IN  [shape |-> velocity.shape, base |-> "self.acceleration",
         data  |-> [i \in Idx(velocity.shape) |->
                      IF lo <= i[1] /\ i[1] < hi
                      THEN Div(Sub(velocity.data[<<i[1] - lo + lo2, i[2], i[3], i[4]>>],
                                   velocity.data[<<i[1] - lo, i[2], i[3], i[4]>>]),
                               Q(2, 1))
                      ELSE Zero]]

NoInstance == [kind |-> "none"]

\* raise ("..."): raising a str is itself an error, a TypeError
\* ("exceptions must derive from BaseException")
RaiseStr == "TypeError"

\* The constructor: [raised, self].  self is the instance the caller gets,
\* NoInstance when the constructor raises.
EnergyConsumptionModel_init(cycle, rho_air) ==
    LET resolved ==
            IF cycle.type = "str"
            THEN LET r == get_standard_driving_cycle(cycle.name)
                 IN  IF r.raised = "KeyError"
                     THEN [raised |-> RaiseStr]
                     ELSE [raised |-> "none", cycle_name |-> cycle.name,
                           cycle |-> r.value]
            ELSE IF cycle.type = "ndarray"
            THEN [raised |-> "none", cycle_name |-> "custom", cycle |-> cycle]
            ELSE [raised |-> RaiseStr]
    IN  IF resolved.raised # "none"
        THEN [raised |-> resolved.raised, self |-> NoInstance]
        ELSE LET gradient == Reshape_6(get_gradients(resolved.cycle_name,
                                                     resolved.cycle))
                 reshaped == Reshape_6(resolved.cycle)
             IN  IF gradient.raised # "none"
                 THEN [raised |-> gradient.raised, self |-> NoInstance]
                 ELSE IF reshaped.raised # "none"
                 THEN [raised |-> reshaped.raised, self |-> NoInstance]
                 ELSE [raised |-> "none",
                       self |-> [kind          |-> "EnergyConsumptionModel",
                                 cycle_name    |-> resolved.cycle_name,
                                 gradient_name |-> resolved.cycle_name,
                                 gradient      |-> gradient.value,
                                 cycle         |-> reshaped.value,
                                 rho_air       |-> rho_air,
                                 velocity      |-> Velocity(reshaped.value),
                                 acceleration  |->
                                     Acceleration(Velocity(reshaped.value))]]

---------------------------------------------------------------------------
(* EnergyConsumptionModel.aux_energy_per_km *)

\* whether param.T broadcasts against the (time, 1, 1, size) series
FitsSeries(self, param) ==
    Broadcastable(<<param.shape[4], param.shape[3], param.shape[2], param.shape[1]>>,
                  self.velocity.shape)

\* a slip: the distance converted to km, as motive_energy_per_km has it
AuxDistance_km(self) == np_divide_s(SumAxis0_00(self.velocity), Q(1000, 1))

\* distance = self.velocity.sum(axis=0)[0][0]
AuxDistance(self) == SumAxis0_00(self.velocity)

\* [raised, ret, stores]: the exception raised, the value returned and the
\* arrays written in place, in order
aux_energy_per_km(self, aux_power, efficiency) ==
    IF ~FitsSeries(self, aux_power)
    THEN [raised |-> "ValueError", ret |-> [kind |-> "none"], stores |-> <<>>]
    ELSE
    LET distance == AuxDistance(self)
        auxiliary_energy ==
            np_divide_s(np_multiply_s(np_divide(np_multiply_s(Transpose(aux_power),
                                Q(self.velocity.shape[1], 1)),
                           distance),
                      Q(1000, 1)),
                 Q(1000, 1))
    IN  [raised |-> "none",
         ret    |-> [kind |-> "array",
                     value |-> Transpose(np_divide_s(auxiliary_energy, efficiency))],
         stores |-> <<>>]

---------------------------------------------------------------------------
(* EnergyConsumptionModel.motive_energy_per_km *)

\* the literal 9.81
G == Q(981, 100)

\* rolling_resistance = (driving_mass * rr_coef * 9.81).T * ones
RollingResistance(self, p) ==
    np_multiply(Transpose(np_multiply_s(np_multiply(p.driving_mass, p.rr_coef), G)),
         Full(self.velocity.shape, One))

\* a slip: the factor 1/2 of the drag left out
AirResistance_nohalf(self, p) ==
    np_multiply(Transpose(np_multiply_s(np_multiply(p.frontal_area, p.drag_coef), self.rho_air)),
         np_multiply(self.velocity, self.velocity))

\* air_resistance =
\*   (frontal_area * drag_coef * self.rho_air / 2).T * np.power(self.velocity, 2)
AirResistance(self, p) ==
    np_multiply(Transpose(np_divide_s(np_multiply_s(np_multiply(p.frontal_area, p.drag_coef),
                             self.rho_air),
                        Q(2, 1))),
         np_multiply(self.velocity, self.velocity))

\* gradient_resistance = (driving_mass * 9.81).T * np.sin(self.gradient)
GradientResistance(self, p) ==
    np_multiply(Transpose(np_multiply_s(p.driving_mass, G)),
         [shape |-> self.gradient.shape, base |-> "new",
          data  |-> [i \in Idx(self.gradient.shape) |-> Sin(self.gradient.data[i])]])

\* a slip: inertia = self.acceleration; inertia *= driving_mass.values.T,
\* which works in the buffer of self.acceleration
Inertia_inplace(self, p) ==
    imul(self.acceleration, Transpose(p.driving_mass))

\* inertia = self.acceleration * driving_mass.values.T
Inertia(self, p) == np_multiply(self.acceleration, Transpose(p.driving_mass))

\* braking_loss = np.where(inertia < 0, inertia * -1, 0)
BrakingLoss(inertia) ==
    [shape |-> inertia.shape, base |-> "new",
     data  |-> [i \in Idx(inertia.shape) |->
                  IF Lt(inertia.data[i], Zero)
                  THEN Mul(inertia.data[i], Q(-1, 1)) ELSE Zero]]

\* total_resistance =
\*   rolling_resistance + air_resistance + gradient_resistance + inertia
TotalResistance(rolling_resistance, air_resistance, gradient_resistance, inertia) ==
    np_add(np_add(np_add(rolling_resistance, air_resistance),
                   gradient_resistance),
         inertia)

\* np.clip(a, 0, None)
ClipMin0(a) == np_maximum_s(a, Zero)

\* a slip: the clip at zero left out
TotalPower_unclipped(self, total_resistance) ==
    np_multiply(total_resistance, self.velocity)

\* total_power = total_resistance * self.velocity;
\* total_power = np.clip(total_power, 0, None)
TotalPower(self, total_resistance) ==
    ClipMin0(np_multiply(total_resistance, self.velocity))

\* (braking_loss * recuperation_efficiency.values.T) * self.velocity
RecuperableBrakingPower(self, p, braking_loss) ==
    np_multiply(np_multiply(braking_loss, Transpose(p.recuperation_efficiency)),
         self.velocity)

\* a slip: the limit taken as motor_power, without the factor 1000
RecuperatedPower_kw(self, p, braking_loss) ==
    np_minimum(np_maximum_s(RecuperableBrakingPower(self, p, braking_loss), Zero),
         Transpose(p.motor_power))

\* recuperated_power = np.clip(recuperated_power, 0, motor_power.values.T * 1000)
RecuperatedPower(self, p, braking_loss) ==
    np_minimum(np_maximum_s(RecuperableBrakingPower(self, p, braking_loss), Zero),
         np_multiply_s(Transpose(p.motor_power), Q(1000, 1)))

\* total_power -= recuperated_power
NetPower(total_power, recuperated_power) ==
    isub(total_power, recuperated_power)

\* a slip: the conversion from joules to kilojoules left out
Energy_joules(net_power, distance, p) ==
    itruediv(itruediv(net_power, distance), Transpose(p.ttw_efficiency))

\* total_power /= distance; total_power /= ttw_efficiency.values.T;
\* total_power /= 1000
Energy(net_power, distance, p) ==
    itruediv_s(itruediv(itruediv(net_power, distance), Transpose(p.ttw_efficiency)),
          Q(1000, 1))

\* the branch debug_mode == False: [ret, stores, locals]
NormalMode(self, p, total_resistance, braking_loss) ==
    LET distance == np_divide_s(SumAxis0_00(self.velocity), Q(1000, 1))
        total_power == TotalPower(self, total_resistance)
        recuperated_power == RecuperatedPower(self, p, braking_loss)
        net == NetPower(total_power, recuperated_power)
        energy == Energy(net, distance, p)
    IN  [ret    |-> [kind |-> "array", value |-> energy],
         stores |-> <<net, energy>>,
         locals |-> [kind |-> "normal",
                     braking_loss |-> braking_loss,
                     recuperated_power |-> recuperated_power,
                     total_power |-> net]]

\* the branch debug_mode == True: the seven arrays returned
DebugMode(self, p, rolling_resistance, air_resistance, gradient_resistance, inertia, braking_loss, total_resistance) ==
    LET rolling  == imul(rolling_resistance, self.velocity)
        air      == imul(air_resistance, self.velocity)
        gradient == imul(gradient_resistance, self.velocity)
        inert    == imul(inertia, self.velocity)
        braking  == imul(braking_loss, self.velocity)
        total_power == TotalPower(self, total_resistance)
        energy   == itruediv_s(np_divide(total_power, Transpose(p.ttw_efficiency)),
                          Q(1000, 1))
    IN  [ret    |-> [kind |-> "tuple",
                     value |-> <<rolling, air, gradient, inert, braking,
                                 total_power, energy>>],
         stores |-> <<rolling, air, gradient, inert, braking, energy>>,
         locals |-> [kind |-> "debug"]]

ParamNames ==
    {"driving_mass", "rr_coef", "drag_coef", "frontal_area", "ttw_efficiency",
     "recuperation_efficiency", "motor_power"}

\* [raised, ret, stores, locals]
motive_energy_per_km(self, p, debug_mode) ==
    IF \E f \in ParamNames : ~FitsSeries(self, p[f])
    THEN [raised |-> "ValueError", ret |-> [kind |-> "none"], stores |-> <<>>,
          locals |-> [kind |-> "none"]]
    ELSE
    LET rolling_resistance  == RollingResistance(self, p)
        air_resistance      == AirResistance(self, p)
        gradient_resistance == GradientResistance(self, p)
        inertia             == Inertia(self, p)
        braking_loss        == BrakingLoss(inertia)
        total_resistance    == TotalResistance(rolling_resistance, air_resistance,
                                               gradient_resistance, inertia)
        out == IF debug_mode = FALSE
               THEN NormalMode(self, p, total_resistance, braking_loss)
               ELSE DebugMode(self, p, rolling_resistance, air_resistance,
                              gradient_resistance, inertia, braking_loss,
                              total_resistance)
    IN  [raised |-> "none", ret |-> out.ret, stores |-> out.stores,
         locals |-> out.locals]

---------------------------------------------------------------------------
(* The callers' inputs *)

\* speeds (km/h) of the explicit cycles: 36 km/h is 10 m/s
Speeds == {0, 36}

\* the synthetic cycle [0, 10, 20, 10, 0] km/h
Synthetic == <<0, 10, 20, 10, 0>>

\* what a caller may pass as cycle: a name, a (T, 6) array of speeds (the
\* fourth and fifth size classes twice as fast, the sixth standing still), a
\* one-dimensional array of speeds, or something that is neither
CycleInputs ==
    {[type |-> "str", name |-> n] :
        n \in {"Urban delivery", "Long haul", "nonexistent-cycle-xyz"}}
    \cup {Columns(rows, <<1, 1, 1, 2, 2, 0>>) :
            rows \in UNION {[1..t -> Speeds] : t \in 1..MaxT}}
    \cup {NdArray(<<n>>, [k \in 1..n |-> Synthetic[((k - 1) % Len(Synthetic)) + 1]]) :
            n \in 0..MaxFlat}
    \cup {[type |-> t] : t \in {"list", "Series", "NoneType"}}

\* extents (powertrain, year) of the parameter tensors: a combustion and an
\* electric powertrain, one year
VariantExtents == <<2, 1>>

\* a parameter tensor with dims (size, powertrain, year, value), the same
\* value x for every vehicle variant
Uniform(name, x, nsize) ==
    [shape |-> <<nsize, VariantExtents[1], VariantExtents[2], 1>>, base |-> name,
     data  |-> [i \in Idx(<<nsize, VariantExtents[1], VariantExtents[2], 1>>) |-> x]]

\* the same, growing with the size class: x, 2x, 3x, ...
PerSize(name, x, nsize) ==
    [shape |-> <<nsize, VariantExtents[1], VariantExtents[2], 1>>, base |-> name,
     data  |-> [i \in Idx(<<nsize, VariantExtents[1], VariantExtents[2], 1>>) |->
                  Mul(x, Q(i[1] + 1, 1))]]

\* the same, for the electric powertrain only: 0 for the combustion one
ElectricOnly(name, x, nsize) ==
    [shape |-> <<nsize, VariantExtents[1], VariantExtents[2], 1>>, base |-> name,
     data  |-> [i \in Idx(<<nsize, VariantExtents[1], VariantExtents[2], 1>>) |->
                  IF i[2] = 0 THEN Zero ELSE x]]

AuxPowers ==
    {Uniform("aux_power", Q(1000, 1), SizeAxis),
     PerSize("aux_power", Q(500, 1), SizeAxis),
     Uniform("aux_power", Q(1000, 1), SizeAxis - 1)}

Efficiencies == {Q(1, 1), Q(1, 2), Zero, Q(-1, 2)}

\* the seven parameter tensors of one motive_energy_per_km call
Params(mass, rr, cd, area, ttw, rec, mp, nsize) ==
    [driving_mass            |-> PerSize("driving_mass", mass, nsize),
     rr_coef                 |-> Uniform("rr_coef", rr, nsize),
     drag_coef               |-> Uniform("drag_coef", cd, nsize),
     frontal_area            |-> Uniform("frontal_area", area, nsize),
     ttw_efficiency          |-> Uniform("ttw_efficiency", ttw, nsize),
     recuperation_efficiency |-> Uniform("recuperation_efficiency", rec, nsize),
     motor_power             |-> ElectricOnly("motor_power", mp, nsize)]

\* inputs within the documented domains
ValidParams ==
    {Params(Q(100, 1), Q(6, 1000), Q(6, 10), Q(2, 1), ttw, rec, mp, SizeAxis) :
        ttw \in {Q(4, 10), One}, rec \in {Zero, Q(1, 2), One}, mp \in {Q(10, 1)}}

\* inputs with one coefficient outside its domain
OutOfDomainParams ==
    {Params(Q(100, 1), rr, Q(6, 10), Q(2, 1), One, One, Q(10, 1), SizeAxis) :
        rr \in {Q(-1, 100), Q(2, 1)}}
    \cup {Params(Q(100, 1), Q(6, 1000), cd, Q(2, 1), One, One, Q(10, 1), SizeAxis) :
        cd \in {Q(-1, 2), Q(2, 1)}}
    \cup {Params(Q(100, 1), Q(6, 1000), Q(6, 10), Q(2, 1), ttw, One, Q(10, 1), SizeAxis) :
        ttw \in {Zero, Q(-1, 2)}}

\* tensors over five size classes, which do not broadcast against six
MisshapenParams ==
    {Params(Q(100, 1), Q(6, 1000), Q(6, 10), Q(2, 1), One, One, Q(10, 1),
            SizeAxis - 1)}

MotiveParams == ValidParams \cup OutOfDomainParams \cup MisshapenParams

---------------------------------------------------------------------------
(* The state machine: a caller constructs a model, calls its methods one   *)
(* at a time and takes each result before the next call                    *)

VARIABLES
    self,     \* the instance the caller holds, NoInstance if there is none
    given,    \* the arguments the constructor was last called with
    fresh,    \* the instance as the constructor left it
    call,     \* the method call just made, with its arguments as passed
    raised,   \* the exception the last operation raised, "none" if it returned
    ret,      \* what the method call returned
    args,     \* the caller's argument tensors after the call
    locals,   \* intermediate arrays of a normal-mode motive call
    prior     \* whether a method of the instance was called before this call

vars == <<self, given, fresh, call, raised, ret, args, locals, prior>>

None == [kind |-> "none"]
NoCall == [op |-> "none"]

Init ==
    /\ self = NoInstance
    /\ given = None
    /\ fresh = NoInstance
    /\ call = NoCall
    /\ raised = "none"
    /\ ret = None
    /\ args = None
    /\ locals = None
    /\ prior = FALSE

ArrayAttributes == {"gradient", "cycle", "velocity", "acceleration"}

\* the array x after the in-place writes: the last array stored into its
\* buffer, if any
AfterStores(x, stores) ==
    LET hits == {k \in 1..Len(stores) : stores[k].base = x.base}
    IN  IF hits = {} THEN x
        ELSE LET last == CHOOSE k \in hits : \A j \in hits : j <= k
             IN  [x EXCEPT !.data = stores[last].data]

\* the instance after the in-place writes of a method
SelfAfter(stores) ==
    [f \in DOMAIN self |->
       IF f \in ArrayAttributes THEN AfterStores(self[f], stores) ELSE self[f]]

\* m = EnergyConsumptionModel(cycle, rho_air)
New ==
    /\ call = NoCall
    /\ \E cycle \in CycleInputs, rho_air \in {RhoAirDefault} :
        LET r == EnergyConsumptionModel_init(cycle, rho_air)
        IN  /\ self' = r.self
            /\ fresh' = r.self
            /\ given' = [kind |-> "init", cycle |-> cycle, rho_air |-> rho_air]
            /\ raised' = r.raised
            /\ prior' = FALSE
            /\ UNCHANGED <<call, ret, args, locals>>

\* m.aux_energy_per_km(aux_power, efficiency)
AuxEnergyPerKm ==
    /\ call = NoCall
    /\ self # NoInstance
    /\ \E aux_power \in AuxPowers, efficiency \in Efficiencies :
        LET r == aux_energy_per_km(self, aux_power, efficiency)
        IN  /\ raised' = r.raised
            /\ ret' = r.ret
            /\ call' = [op |-> "aux_energy_per_km", aux_power |-> aux_power,
                        efficiency |-> efficiency]
            /\ args' = [kind |-> "aux",
                        aux_power |-> AfterStores(aux_power, r.stores)]
            /\ self' = SelfAfter(r.stores)
            /\ locals' = None
            /\ UNCHANGED <<given, fresh, prior>>

\* m.motive_energy_per_km(driving_mass, ..., motor_power, debug_mode)
MotiveEnergyPerKm ==
    /\ call = NoCall
    /\ self # NoInstance
    /\ \E p \in MotiveParams, debug_mode \in BOOLEAN :
        LET r == motive_energy_per_km(self, p, debug_mode)
        IN  /\ raised' = r.raised
            /\ ret' = r.ret
            /\ call' = [op |-> "motive_energy_per_km", p |-> p,
                        debug_mode |-> debug_mode]
            /\ args' = [kind |-> "motive",
                        p |-> [f \in ParamNames |-> AfterStores(p[f], r.stores)]]
            /\ self' = SelfAfter(r.stores)
            /\ locals' = r.locals
            /\ UNCHANGED <<given, fresh, prior>>

\* the caller takes the result (or the exception) and goes on
Continue ==
    /\ call # NoCall
    /\ call' = NoCall
    /\ raised' = "none"
    /\ ret' = None
    /\ args' = None
    /\ locals' = None
    /\ prior' = TRUE
    /\ UNCHANGED <<self, given, fresh>>

Next == New \/ AuxEnergyPerKm \/ MotiveEnergyPerKm \/ Continue

Spec == Init /\ [][Next]_vars

---------------------------------------------------------------------------
(* Construction *)

Constructed == self # NoInstance

\* length of the time axis and the columns of the instance's series
Steps == self.velocity.shape[1]
Cols  == 0..(self.velocity.shape[4] - 1)

\* a name the registry does not resolve, or a value that is neither a name
\* nor a sequence of numbers
InvalidCycle(c) ==
    \/ c.type = "str" /\ c.name \notin DOMAIN StandardCycles
    \/ c.type = "NoneType"

\* C1: constructing with an unresolvable name, or with a value that is
\* neither a name nor a numeric sequence, fails with ConfigurationError and
\* with no other error, and produces no instance.
C1_ConfigurationError ==
    (given.kind = "init" /\ call = NoCall /\ InvalidCycle(given.cycle))
        => (raised = "ConfigurationError" /\ self = NoInstance)

\* the speed samples a valid cycle input consists of: their number along
\* time, and sample i (for size class s, when the input has size columns)
ValidCycle(c) ==
    \/ c.type = "str" /\ c.name \in DOMAIN StandardCycles
    \/ c.type = "ndarray"

Samples(c) == IF c.type = "str" THEN StandardCycles[c.name] ELSE c

SampleAt(c, i, s) ==
    IF Len(Samples(c).shape) = 1 THEN Samples(c).flat[i + 1]
    ELSE Samples(c).flat[Samples(c).shape[2] * i + s + 1]

\* C2: for every valid cycle (a resolvable name or an explicit sequence of
\* N speed samples) the constructor succeeds, the velocity series has
\* exactly N time steps, and velocity[i] = cycle[i] * 1000/3600 for every i.
C2_VelocitySeries ==
    (given.kind = "init" /\ call = NoCall /\ ValidCycle(given.cycle))
        => /\ Constructed
           /\ Steps = Samples(given.cycle).shape[1]
           /\ \A i \in 0..(Steps - 1) : \A s \in Cols :
                self.velocity.data[<<i, 0, 0, s>>]
                    = Mul(Q(SampleAt(given.cycle, i, s), 1), Q(1000, 3600))

\* C3: for every constructed model with N >= 1 time steps, acceleration has
\* the shape of velocity, acceleration[0] = acceleration[N-1] = 0, and
\* acceleration[i] = (velocity[i+1] - velocity[i-1]) / 2 for 0 < i < N-1
\* (all zeros when N is 1 or 2).
C3_Acceleration ==
    (Constructed /\ Steps >= 1)
        => /\ self.acceleration.shape = self.velocity.shape
           /\ \A s \in Cols :
                /\ self.acceleration.data[<<0, 0, 0, s>>] = Zero
                /\ self.acceleration.data[<<Steps - 1, 0, 0, s>>] = Zero
                /\ \A i \in 1..(Steps - 2) :
                     self.acceleration.data[<<i, 0, 0, s>>]
                         = Div(Sub(self.velocity.data[<<i + 1, 0, 0, s>>],
                                   self.velocity.data[<<i - 1, 0, 0, s>>]),
                               Q(2, 1))

\* a model of at least three steps that accelerates and brakes
C3_Witness ==
    /\ Constructed
    /\ Steps >= 3
    /\ \E s \in Cols : \E i, j \in 1..(Steps - 2) :
         /\ Lt(Zero, self.acceleration.data[<<i, 0, 0, s>>])
         /\ Lt(self.acceleration.data[<<j, 0, 0, s>>], Zero)

---------------------------------------------------------------------------
(* Auxiliary energy *)

AfterAux == call.op = "aux_energy_per_km" /\ raised = "none"

\* D: the distance size class s covers, the sum of its velocity series (m)
Distance(s) == SumTo(self.velocity, <<0, 0, 0, s>>, Steps)

\* C5: with N time steps and a distance D > 0, for every efficiency in
\* (0, 1], aux_energy_per_km returns aux_power * N / D / efficiency with the
\* non-time shape of aux_power; efficiency 1 and 1000 W give 1000 * N / D.
C5_AuxEnergy ==
    (AfterAux /\ Lt(Zero, call.efficiency) /\ Le(call.efficiency, One))
        => /\ ret.kind = "array"
           /\ ret.value.shape = call.aux_power.shape
           /\ \A i \in Idx(call.aux_power.shape) :
                Lt(Zero, Distance(i[1]))
                    => /\ ret.value.data[i]
                            = Div(Div(Mul(call.aux_power.data[i], Q(Steps, 1)),
                                      Distance(i[1])),
                                  call.efficiency)
                       /\ (call.efficiency = One
                           /\ call.aux_power.data[i] = Q(1000, 1))
                            => ret.value.data[i]
                                 = Div(Q(1000 * Steps, 1), Distance(i[1]))

\* 1000 W at efficiency 1 over a cycle of several seconds that moves
C5_Witness ==
    /\ AfterAux
    /\ call.efficiency = One
    /\ Steps >= 2
    /\ \E i \in Idx(call.aux_power.shape) :
         /\ Lt(Zero, Distance(i[1]))
         /\ call.aux_power.data[i] = Q(1000, 1)
         /\ ret.value.data[i] = Div(Q(1000 * Steps, 1), Distance(i[1]))

---------------------------------------------------------------------------
(* Motive energy *)

AfterMotive(debug_mode) ==
    /\ call.op = "motive_energy_per_km"
    /\ call.debug_mode = debug_mode
    /\ raised = "none"

\* the element of parameter f for the variant of index i = (t, year,
\* powertrain, size) of a result
ParamAt(f, i) == call.p[f].data[<<i[4], i[3], i[2], 0>>]

VelocityAt(i)     == self.velocity.data[<<i[1], 0, 0, i[4]>>]
AccelerationAt(i) == self.acceleration.data[<<i[1], 0, 0, i[4]>>]
GradientAt(i)     == self.gradient.data[<<i[1], 0, 0, i[4]>>]

\* the shape (time, year, powertrain, size) of a per-second result
PerSecondShape ==
    <<Steps, call.p.driving_mass.shape[3], call.p.driving_mass.shape[2],
      self.velocity.shape[4]>>

\* the documented domains of the coefficients
InDomain ==
    /\ \A i \in Idx(PerSecondShape) :
         /\ Le(Zero, ParamAt("rr_coef", i)) /\ Le(ParamAt("rr_coef", i), One)
         /\ Le(Zero, ParamAt("drag_coef", i)) /\ Le(ParamAt("drag_coef", i), One)
         /\ Lt(Zero, ParamAt("ttw_efficiency", i))
         /\ Le(ParamAt("ttw_efficiency", i), One)
         /\ Le(Zero, ParamAt("recuperation_efficiency", i))
         /\ Le(ParamAt("recuperation_efficiency", i), One)
         /\ Le(Zero, ParamAt("motor_power", i))
         /\ Lt(Zero, ParamAt("driving_mass", i))

\* size class s drives at one constant speed v > 0 on a flat road
FlatConstant(s) ==
    /\ Steps >= 1
    /\ Lt(Zero, self.velocity.data[<<0, 0, 0, s>>])
    /\ \A t \in 0..(Steps - 1) :
         /\ self.velocity.data[<<t, 0, 0, s>>] = self.velocity.data[<<0, 0, 0, s>>]
         /\ self.gradient.data[<<t, 0, 0, s>>] = 0

NoRecuperation ==
    \A i \in Idx(PerSecondShape) :
        \/ ParamAt("recuperation_efficiency", i) = Zero
        \/ ParamAt("motor_power", i) = Zero

\* (driving_mass * rr_coef * 9.81 + 1/2 * rho_air * drag_coef * frontal_area
\*  * v^2) * v / ttw_efficiency, for the variant and second of index i
FlatPowerAt(i) ==
    Div(Mul(Add(Mul(Mul(ParamAt("driving_mass", i), ParamAt("rr_coef", i)), G),
                Mul(Mul(Mul(Mul(Q(1, 2), self.rho_air), ParamAt("drag_coef", i)),
                        ParamAt("frontal_area", i)),
                    Mul(VelocityAt(i), VelocityAt(i)))),
            VelocityAt(i)),
        ParamAt("ttw_efficiency", i))

\* that power summed over the cycle, per km travelled, in kJ
FlatEnergyPerKm(i) ==
    Div(Div(Mul(Q(Steps, 1), FlatPowerAt(i)), Div(Distance(i[4]), Q(1000, 1))),
        Q(1000, 1))

BrakingPowerAt(i) ==
    LET inertia == Mul(AccelerationAt(i), ParamAt("driving_mass", i))
    IN  Mul(Mul(IF Lt(inertia, Zero) THEN Neg(inertia) ELSE Zero,
                ParamAt("recuperation_efficiency", i)),
            VelocityAt(i))

\* motor_power * 1000
MotorLimitAt(i) == Mul(ParamAt("motor_power", i), Q(1000, 1))

C7_NeverNegative ==
    (AfterMotive(FALSE) /\ InDomain)
        => \A i \in Idx(PerSecondShape) :
             /\ Le(Zero, locals.total_power.data[i])
             /\ Lt(Zero, Distance(i[4])) => Le(Zero, ret.value.data[i])

\* C7, as the code has it: the net total power is the total power clipped at
\* zero minus the recuperated power, so it is never below minus the
\* recuperated power (hence never below -motor_power * 1000); it is
\* non-negative at every step that does not brake (acceleration >= 0), and
\* the energy returned there is >= 0.
C7_NetPower ==
    (AfterMotive(FALSE) /\ InDomain)
        => \A i \in Idx(PerSecondShape) :
             /\ Le(Neg(locals.recuperated_power.data[i]), locals.total_power.data[i])
             /\ Le(Neg(MotorLimitAt(i)), locals.total_power.data[i])
             /\ Le(Zero, AccelerationAt(i))
                  => /\ Le(Zero, locals.total_power.data[i])
                     /\ Lt(Zero, Distance(i[4])) => Le(Zero, ret.value.data[i])

\* a braking step whose net power, and energy, is negative
C7_Witness ==
    /\ AfterMotive(FALSE) /\ InDomain
    /\ \E i \in Idx(PerSecondShape) :
         /\ Lt(AccelerationAt(i), Zero)
         /\ Lt(locals.total_power.data[i], Zero)
         /\ Lt(ret.value.data[i], Zero)

\* the recuperated power at index i: the braking power clipped to the motor
RecuperatedAt(i) == Minimum(Maximum(BrakingPowerAt(i), Zero), MotorLimitAt(i))

\* what normal mode returns for the arguments of the call just made
NormalReturn == motive_energy_per_km(self, call.p, FALSE).ret.value

\* the energy of the debug output summed over time and divided by the
\* distance in km
DebugEnergyPerKm(i) ==
    Div(SumTo(ret.value[7], i, Steps), Div(Distance(i[4]), Q(1000, 1)))

\* total power recomputed from the debug components, then divided by
\* ttw_efficiency and by 1000
RecomputedFromComponents ==
    \A i \in Idx(PerSecondShape) :
        LET total == Maximum(Add(Add(Add(ret.value[1].data[i], ret.value[2].data[i]),
                                     ret.value[3].data[i]),
                                 ret.value[4].data[i]),
                             Zero)
        IN  /\ ret.value[6].data[i] = total
            /\ ret.value[7].data[i]
                 = Div(Div(total, ParamAt("ttw_efficiency", i)), Q(1000, 1))

RecuperatedEnergyPerKm(i) ==
    LET rec == [shape |-> PerSecondShape,
                data  |-> [j \in Idx(PerSecondShape) |-> RecuperatedAt(j)]]
    IN  Div(Div(Div(SumTo(rec, i, Steps), Div(Distance(i[4]), Q(1000, 1))),
                ParamAt("ttw_efficiency", i)),
            Q(1000, 1))

---------------------------------------------------------------------------
(* Errors and effects *)

\* the tensors of the call have six size classes
WellShaped == \A f \in ParamNames : FitsSeries(self, call.p[f])

\* C9: out-of-domain inputs are rejected with DomainError and nothing is
\* returned: efficiency <= 0 in aux_energy_per_km; rr_coef or drag_coef
\* outside [0, 1], or ttw_efficiency <= 0, in motive_energy_per_km.
C9_DomainError ==
    /\ (call.op = "aux_energy_per_km" /\ FitsSeries(self, call.aux_power)
        /\ Le(call.efficiency, Zero))
         => (raised = "DomainError" /\ ret = None)
    /\ (call.op = "motive_energy_per_km" /\ WellShaped
        /\ \E i \in Idx(PerSecondShape) :
             \/ Lt(ParamAt("rr_coef", i), Zero) \/ Lt(One, ParamAt("rr_coef", i))
             \/ Lt(ParamAt("drag_coef", i), Zero) \/ Lt(One, ParamAt("drag_coef", i))
             \/ Le(ParamAt("ttw_efficiency", i), Zero))
         => (raised = "DomainError" /\ ret = None)

\* the buffers of the instance and of the caller
OwnedBuffers ==
    {"cycle", "gradient", "self.velocity", "self.acceleration", "aux_power"}
        \cup ParamNames

\* C10: after every call of any sequence of aux_energy_per_km and
\* motive_energy_per_km calls, the instance's series and rho_air and the
\* caller's tensors are unchanged, what is returned shares no buffer with
\* them, and the call returned what it returns on the instance as
\* constructed, whatever was called before.
C10_Pure ==
    /\ self = fresh
    /\ call.op = "aux_energy_per_km"
         => /\ args.aux_power = call.aux_power
            /\ ret = aux_energy_per_km(fresh, call.aux_power, call.efficiency).ret
            /\ raised = "none" => ret.value.base \notin OwnedBuffers
    /\ call.op = "motive_energy_per_km"
         => /\ args.p = call.p
            /\ ret = motive_energy_per_km(fresh, call.p, call.debug_mode).ret
            /\ (raised = "none" /\ ~call.debug_mode)
                 => ret.value.base \notin OwnedBuffers
            /\ (raised = "none" /\ call.debug_mode)
                 => \A k \in 1..7 : ret.value[k].base \notin OwnedBuffers

\* a debug-mode call that returned, made after earlier calls on the instance
C10_Witness ==
    /\ prior
    /\ AfterMotive(TRUE)
    /\ Steps >= 3
    /\ self = fresh
    /\ args.p = call.p

=============================================================================
